---- MODULE Spec2Model ----
(***************************************************************************)
(* Polar HRV data analysis: the windowing and HRV-estimation core of       *)
(* src/HRV_calculation.py as a state machine.                              *)
(*                                                                         *)
(* Time is counted in ticks of half a second since 1970-01-01T00:00:00     *)
(* (tick 0).  Recorded beats lie on whole seconds (even ticks), so the     *)
(* median of two timestamps is again a tick.  An RR series is a sequence   *)
(* of rows [t |-> timestamp, v |-> RR interval in ms]; t is the index      *)
(* label of the pandas Series, v its value.                                *)
(***************************************************************************)
EXTENDS Integers, Sequences, FiniteSets

VARIABLES
    entry,               \* the function the caller invoked
    pc,                  \* position inside that call
    error,               \* "none" or the exception that ended the call
    data,                \* the caller's series / dataframe rows
    step_frequency,      \* pd.Timedelta, in ticks
    window_size,         \* pd.Timedelta, in ticks
    method,              \* name of the HRV method
    divided_series,      \* list of windows (slicer output, deduplicator input)
    filtered_series,     \* list returned by filter_windows_with_chunked_dataframe
    invoked,             \* indices of the windows an estimator was called on
    HRV_divided_series,  \* per-window HRV values (before the missing-data filter)
    median_timestamps,   \* per-window timestamps (before the missing-data filter)
    HRV_results,         \* HRV values returned by find_and_filter_missing_data
    timestamps,          \* timestamps returned by find_and_filter_missing_data
    ret,                 \* value returned by a directly called estimator
    args,                \* arguments of a filter-stage call other than data
    output,              \* dataframe (or index array) a filter stage returned
    stages,              \* filter stages the loader has applied so far, in order
    data_before_DWT,     \* loader's snapshot of data taken before remove_adjacent_beats
    filtered_indices     \* indices flagged by select_indices_to_filtering

\* state of the filter stages of src/utils_preprocessing.py and their loader
preprocessing == <<args, output, stages, data_before_DWT, filtered_indices>>

\* state of the windowing and estimation of src/HRV_calculation.py
windowing == <<step_frequency, window_size, method, divided_series, filtered_series,
               invoked, HRV_divided_series, median_timestamps, HRV_results,
               timestamps, ret>>

vars == <<entry, pc, error, data, windowing, preprocessing>>

(***************************************************************************)
(* Bounds of the explored inputs.                                          *)
(***************************************************************************)
MaxLen == 4          \* rows of a series handed to the windowing pipeline
MaxSec == 4          \* recorded beats lie on seconds 1..MaxSec
MaxEstLen == 4       \* rows of a series handed directly to an estimator
MaxWindows == 3      \* windows of a list handed directly to the deduplicator
MaxResults == 3      \* entries of arrays handed directly to the missing-data filter

Times == {2 * s : s \in 1..MaxSec}
Durations == {2, 4, 6}                  \* 1 s, 2 s, 3 s
Methods == {"RMSSD", "SDNN", "pNN50", "other"}
WindowRR == {1949, 2000}                \* RR values of pipeline inputs
EstimatorRR == {1949, 1950, 2000, 2001} \* RR values of estimator inputs

(***************************************************************************)
(* Program constants.                                                      *)
(***************************************************************************)
Epoch == 0             \* np.datetime64('1970-01-01T00:00:00'), np.zeros(...)
TwoSeconds == 4        \* np.timedelta64(2000000000, 'ns')
OutlierRR == 2000      \* x > 2000
NN50Limit == 50        \* abs(x) > 50

(***************************************************************************)
(* Generic helpers.                                                        *)
(***************************************************************************)
Row(t, v) == [t |-> t, v |-> v]

RECURSIVE SumSeq(_)
SumSeq(s) == IF s = <<>> THEN 0 ELSE Head(s) + SumSeq(Tail(s))

RECURSIVE Keep(_, _)
\* the subsequence of s at the positions in idx
Keep(s, idx) ==
    IF s = <<>> THEN <<>>
    ELSE LET n == Len(s)
             init == Keep(SubSeq(s, 1, n - 1), idx)
         IN IF n \in idx THEN Append(init, s[n]) ELSE init

IsSorted(s) == \A i \in 1..(Len(s) - 1) : s[i].t <= s[i + 1].t

SortedSeries(n, Ts, Vs) ==
    {s \in [1..n -> [t : Ts, v : Vs]] : IsSorted(s)}

SortedSeriesUpTo(n, Ts, Vs) == UNION {SortedSeries(k, Ts, Vs) : k \in 0..n}

Abs(x) == IF x < 0 THEN -x ELSE x

(***************************************************************************)
(* WindowSlicer: generate_slide_over_series and its caller.                *)
(***************************************************************************)
\* mutant: the range stops before `end`
DateRange_open(start, end, freq) ==
    [k \in 1..((end - start - 1) \div freq + 1) |-> start + (k - 1) * freq]

\* pd.date_range(start, end, freq): start + k*freq for every k >= 0 that
\* keeps the value <= end.
DateRange(start, end, freq) ==
    [k \in 1..((end - start) \div freq + 1) |-> start + (k - 1) * freq]

\* series[a:b] on a monotonic DatetimeIndex: label slice, located with
\* searchsorted(a, side='left') and searchsorted(b, side='right').
SearchSortedLeft(series, x) == Cardinality({i \in 1..Len(series) : series[i].t < x})

\* mutant: side='left', the closing bound excluded
SearchSortedRight_left(series, x) == Cardinality({i \in 1..Len(series) : series[i].t < x})

SearchSortedRight(series, x) == Cardinality({i \in 1..Len(series) : series[i].t <= x})

SliceLabels(series, a, b) ==
    SubSeq(series, SearchSortedLeft(series, a) + 1, SearchSortedRight(series, b))

generate_slide_over_series(series, step, win) ==
    LET steps == DateRange(series[1].t, series[Len(series)].t, step)
    IN [k \in 1..Len(steps) |-> SliceLabels(series, steps[k], steps[k] + win)]

\* mutant: assert step_frequency < win_size
StepAccepted_strict(step, win) == step < win

\* assert step_frequency <= win_size
StepAccepted(step, win) == step <= win

(***************************************************************************)
(* WindowDeduplicator: filter_windows_with_chunked_dataframe.              *)
(***************************************************************************)
\* np.array(list_of_series, dtype='object') builds a 1-D array of Series
\* only when the Series differ in length; Series of one common length are
\* read as rows and give a 2-D array of their values.
IsRagged(ws) == \E i, j \in 1..Len(ws) : Len(ws[i]) # Len(ws[j])

\* An element of the returned list: a Series, or (from a 2-D array) a value.
SeriesObj(w) == [series |-> TRUE, rows |-> w, scalar |-> 0]

ScalarObj(x) == [series |-> FALSE, rows |-> <<>>, scalar |-> x]

\* list_filter[i - 1] = True
MarksPrevious(ws, i) ==
    /\ Len(ws[i]) > 0
    /\ Len(ws[i - 1]) > 0
    /\ ws[i][1].t = ws[i - 1][1].t
    /\ Len(ws[i]) = Len(ws[i - 1])

ListFilter(ws) == {i - 1 : i \in {j \in 2..Len(ws) : MarksPrevious(ws, j)}}

RECURSIVE Flatten(_)
\* ravel() of the 2-D array: the values of all rows, row after row
Flatten(ws) ==
    IF ws = <<>> THEN <<>>
    ELSE [k \in 1..Len(Head(ws)) |-> ScalarObj(Head(ws)[k].v)] \o Flatten(Tail(ws))

\* "AttributeError" when a row of the 2-D array is asked for its .index
FilterWindowsError(ws) ==
    IF ws # <<>> /\ ~IsRagged(ws) /\ Len(ws) >= 2 /\ Len(ws[1]) > 0
    THEN "AttributeError" ELSE "none"

FilterWindowsResult(ws) ==
    IF ws = <<>> \/ IsRagged(ws)
    THEN LET kept == Keep(ws, (1..Len(ws)) \ ListFilter(ws))
         IN [k \in 1..Len(kept) |-> SeriesObj(kept[k])]
    ELSE Flatten(ws)   \* np.delete(2-D array, no index, axis=None)

(***************************************************************************)
(* HRV values.  A float is kept exactly: num/den, or its square root, or   *)
(* NaN (np.mean / std of nothing).                                         *)
(***************************************************************************)
Ratio(n, d) == [nan |-> FALSE, root |-> FALSE, num |-> n, den |-> d]

SqrtOf(n, d) == [nan |-> FALSE, root |-> TRUE, num |-> n, den |-> d]

NaN == [nan |-> TRUE, root |-> FALSE, num |-> 0, den |-> 1]

Zero == Ratio(0, 1)

\* two values denote the same number
SameValue(a, b) ==
    IF a.nan \/ b.nan THEN a.nan /\ b.nan
    ELSE IF a.num = 0 \/ b.num = 0 THEN a.num = b.num
    ELSE a.root = b.root /\ a.num * b.den = b.num * a.den

\* x < 1e-8 (False for NaN).  num/den < 10^-8 iff (den-1) \div num >= 10^8;
\* sqrt(num/den) < 10^-8 iff num/den < 10^-16.
Below1e8(x) ==
    /\ ~x.nan
    /\ \/ x.num = 0
       \/ /\ ~x.root
          /\ (x.den - 1) \div x.num >= 100000000
       \/ /\ x.root
          /\ ((x.den - 1) \div x.num) \div 100000000 >= 100000000

(***************************************************************************)
(* HRVEstimators.                                                          *)
(***************************************************************************)
\* mutant: len(data) in [0]
EmptyOrSingleton_emptyOnly(series) == Len(series) \in {0}

\* len(data) in [0, 1]
EmptyOrSingleton(series) == Len(series) \in {0, 1}

\* series.drop(labels): every row whose index label is among the labels
DropLabels(series, labels) == SelectSeq(series, LAMBDA r : r.t \notin labels)

\* (data.diff()[1:]) ** 2: row i carries the label of entry i+1
SquaredDifferences(series) ==
    [i \in 1..(Len(series) - 1) |->
        Row(series[i + 1].t, (series[i + 1].v - series[i].v) * (series[i + 1].v - series[i].v))]

\* positions of RR_intervals_squared whose index.to_series().diff() exceeds
\* two seconds; the diff of the first position is NaT and never exceeds
GapOutliers(squared) ==
    {j \in 2..Len(squared) : squared[j].t - squared[j - 1].t > TwoSeconds}

RMSSD_HRV_calculation(series) ==
    IF EmptyOrSingleton(series) THEN Zero
    ELSE LET squared == SquaredDifferences(series)
             indices_to_remove == {squared[j].t : j \in GapOutliers(squared)}
             remaining == DropLabels(squared, indices_to_remove)
         IN IF remaining = <<>> THEN NaN
            ELSE SqrtOf(SumSeq([i \in 1..Len(remaining) |-> remaining[i].v]),
                        Len(remaining))

\* data.loc[lambda x: x > 2000]
IsOutlierRR(x) == x > OutlierRR

\* data.drop(outliers.index)
WithoutOutliers(series) ==
    DropLabels(series, {series[i].t : i \in {j \in 1..Len(series) : IsOutlierRR(series[j].v)}})

\* std(ddof=0): sqrt((n*sum(x^2) - sum(x)^2) / n^2)
SDNN_HRV_calculation(series) ==
    IF EmptyOrSingleton(series) THEN Zero
    ELSE LET RR_intervals == WithoutOutliers(series)
             n == Len(RR_intervals)
             s1 == SumSeq([i \in 1..n |-> RR_intervals[i].v])
             s2 == SumSeq([i \in 1..n |-> RR_intervals[i].v * RR_intervals[i].v])
         IN IF n = 0 THEN NaN ELSE SqrtOf(n * s2 - s1 * s1, n * n)

\* abs(x) > 50
ExceedsNN50(d) == Abs(d) > NN50Limit

pNN50_HRV_calculation(series) ==
    IF EmptyOrSingleton(series) THEN Zero
    ELSE LET RR_intervals == WithoutOutliers(series)
             differences == [i \in 1..(Len(RR_intervals) - 1) |->
                                RR_intervals[i + 1].v - RR_intervals[i].v]
             NN50 == Cardinality({i \in 1..Len(differences) : ExceedsNN50(differences[i])})
         IN IF NN50 = 0 THEN Zero ELSE Ratio(NN50, Len(differences))

(***************************************************************************)
(* Per-window estimation inside calculate_HRV_in_windows.                  *)
(***************************************************************************)
\* mdates.date2num / mdates.num2date: a timestamp as a number counted from
\* the epoch, and back
date2num(t) == t - Epoch

num2date(x) == Epoch + x

\* the k-th smallest element of a sequence of numbers
KthSmallest(xs, k) ==
    CHOOSE x \in {xs[i] : i \in 1..Len(xs)} :
        /\ Cardinality({i \in 1..Len(xs) : xs[i] < x}) < k
        /\ k <= Cardinality({i \in 1..Len(xs) : xs[i] <= x})

\* mutant: the lower middle element for an even count
Median_lower(xs) == KthSmallest(xs, (Len(xs) + 1) \div 2)

\* np.median
Median(xs) ==
    LET n == Len(xs)
    IN IF n % 2 = 1 THEN KthSmallest(xs, (n + 1) \div 2)
       ELSE (KthSmallest(xs, n \div 2) + KthSmallest(xs, n \div 2 + 1)) \div 2

MedianTimestamp(w) == num2date(Median([i \in 1..Len(w) |-> date2num(w[i].t)]))

KnownMethod(m) == m \in {"RMSSD", "SDNN", "pNN50"}

Estimator(m, w) ==
    IF m = "RMSSD" THEN RMSSD_HRV_calculation(w)
    ELSE IF m = "SDNN" THEN SDNN_HRV_calculation(w)
    ELSE pNN50_HRV_calculation(w)

\* mutant: if len(divided_series[i]) > 0
ShouldEstimate_nonEmpty(w) == Len(w) > 0

\* if len(divided_series[i]) > 1
ShouldEstimate(w) == Len(w) > 1

\* the exception the loop over the windows ends with, if any: len() of a
\* value that is no Series, or an unknown method at the first window that
\* is to be estimated
EstimateError(fs, m) ==
    IF \E i \in 1..Len(fs) : ~fs[i].series THEN "TypeError"
    ELSE IF ~KnownMethod(m) /\ \E i \in 1..Len(fs) : ShouldEstimate(fs[i].rows)
         THEN "NotImplementedError"
    ELSE "none"

EstimatedIndices(fs) == {i \in 1..Len(fs) : ShouldEstimate(fs[i].rows)}

HRVArray(fs, m) ==
    [i \in 1..Len(fs) |->
        IF ShouldEstimate(fs[i].rows) THEN Estimator(m, fs[i].rows) ELSE Zero]

MedianArray(fs) ==
    [i \in 1..Len(fs) |->
        IF ShouldEstimate(fs[i].rows) THEN MedianTimestamp(fs[i].rows) ELSE Epoch]

(***************************************************************************)
(* MissingDataFilter: find_and_filter_missing_data.                        *)
(***************************************************************************)
\* mutant: small values are dropped for every method
IndicesHRV_anyMethod(values, m) == {k \in 1..Len(values) : Below1e8(values[k])}

\* indices_HRV
IndicesHRV(values, m) ==
    IF m = "pNN50" THEN {} ELSE {k \in 1..Len(values) : Below1e8(values[k])}

\* indices_time
IndicesTime(ts) == {k \in 1..Len(ts) : ts[k] = Epoch}

\* np.union1d(indices_HRV, indices_time)
AllIndicesToRemove(values, ts, m) == IndicesHRV(values, m) \cup IndicesTime(ts)

\* np.delete(array, all_indices_to_remove)
Delete(array, indices) == Keep(array, (1..Len(array)) \ indices)

(***************************************************************************)
(* Actions.                                                                *)
(***************************************************************************)
Fail(e) == pc' = "failed" /\ error' = e

\* data.copy(); set_index('Phone timestamp'); squeeze(): a frame of one
\* row and one column squeezes to a scalar, which has no .index
SqueezesToScalar(rows) == Len(rows) = 1

\* the exception prepare_windows_any_frequency_any_step ends with, if any
PrepareError(scalar, series, step, win) ==
    IF ~StepAccepted(step, win) THEN "AssertionError"
    ELSE IF scalar THEN "AttributeError"      \* full_series.index of a number
    ELSE IF series = <<>> THEN "IndexError"   \* series.index[0] of nothing
    ELSE "none"

\* prepare_windows_any_frequency_any_step, called directly on a Series or
\* from calculate_HRV_in_windows on the squeezed frame
PrepareWindows ==
    /\ pc = "prepare"
    /\ LET scalar == entry = "calculate_HRV_in_windows" /\ SqueezesToScalar(data)
           e == PrepareError(scalar, data, step_frequency, window_size)
       IN IF e # "none"
          THEN Fail(e) /\ UNCHANGED divided_series
          ELSE /\ divided_series' =
                      generate_slide_over_series(data, step_frequency, window_size)
               /\ pc' = IF entry = "calculate_HRV_in_windows" THEN "filter" ELSE "returned"
               /\ UNCHANGED error
    /\ UNCHANGED <<entry, data, step_frequency, window_size, method, filtered_series,
                   invoked, HRV_divided_series, median_timestamps, HRV_results,
                   timestamps, ret>>
    /\ UNCHANGED preprocessing

\* filter_windows_with_chunked_dataframe
FilterWindows ==
    /\ pc = "filter"
    /\ LET e == FilterWindowsError(divided_series)
       IN IF e # "none"
          THEN Fail(e) /\ UNCHANGED filtered_series
          ELSE /\ filtered_series' = FilterWindowsResult(divided_series)
               /\ pc' = IF entry = "calculate_HRV_in_windows" THEN "estimate" ELSE "returned"
               /\ UNCHANGED error
    /\ UNCHANGED <<entry, data, step_frequency, window_size, method, divided_series,
                   invoked, HRV_divided_series, median_timestamps, HRV_results,
                   timestamps, ret>>
    /\ UNCHANGED preprocessing

\* the loop of calculate_HRV_in_windows over the deduplicated windows
EstimateWindows ==
    /\ pc = "estimate"
    /\ LET e == EstimateError(filtered_series, method)
       IN IF e # "none"
          THEN Fail(e) /\ UNCHANGED <<invoked, HRV_divided_series, median_timestamps>>
          ELSE /\ invoked' = EstimatedIndices(filtered_series)
               /\ HRV_divided_series' = HRVArray(filtered_series, method)
               /\ median_timestamps' = MedianArray(filtered_series)
               /\ pc' = "missing"
               /\ UNCHANGED error
    /\ UNCHANGED <<entry, data, step_frequency, window_size, method, divided_series,
                   filtered_series, HRV_results, timestamps, ret>>
    /\ UNCHANGED preprocessing

\* find_and_filter_missing_data
FindAndFilterMissingData ==
    /\ pc = "missing"
    /\ LET all_indices_to_remove ==
               AllIndicesToRemove(HRV_divided_series, median_timestamps, method)
       IN /\ HRV_results' = Delete(HRV_divided_series, all_indices_to_remove)
          /\ timestamps' = Delete(median_timestamps, all_indices_to_remove)
    /\ pc' = "returned"
    /\ UNCHANGED <<entry, error, data, step_frequency, window_size, method,
                   divided_series, filtered_series, invoked, HRV_divided_series,
                   median_timestamps, ret>>
    /\ UNCHANGED preprocessing

\* a direct call of one estimator on a series
CallEstimator(name, result) ==
    /\ pc = "call"
    /\ entry = name
    /\ ret' = result
    /\ pc' = "returned"
    /\ UNCHANGED <<entry, error, data, step_frequency, window_size, method,
                   divided_series, filtered_series, invoked, HRV_divided_series,
                   median_timestamps, HRV_results, timestamps>>
    /\ UNCHANGED preprocessing

CallRMSSD == CallEstimator("RMSSD_HRV_calculation", RMSSD_HRV_calculation(data))

CallSDNN == CallEstimator("SDNN_HRV_calculation", SDNN_HRV_calculation(data))

CallpNN50 == CallEstimator("pNN50_HRV_calculation", pNN50_HRV_calculation(data))

(***************************************************************************)
(* Specifications.                                                         *)
(***************************************************************************)
Blank ==
    /\ error = "none"
    /\ filtered_series = <<>>
    /\ invoked = {}
    /\ HRV_results = <<>>
    /\ timestamps = <<>>
    /\ ret = NaN
    /\ args = [none |-> TRUE]
    /\ output = <<>>
    /\ stages = <<>>
    /\ data_before_DWT = <<>>
    /\ filtered_indices = {}

\* calculate_HRV_in_windows on a frame, or the slicer alone on a Series
Init ==
    /\ entry \in {"calculate_HRV_in_windows", "prepare_windows_any_frequency_any_step"}
    /\ pc = "prepare"
    /\ data \in SortedSeriesUpTo(MaxLen, Times, WindowRR)
    /\ step_frequency \in Durations
    /\ window_size \in Durations
    /\ method \in IF entry = "calculate_HRV_in_windows" THEN Methods ELSE {"RMSSD"}
    /\ divided_series = <<>>
    /\ HRV_divided_series = <<>>
    /\ median_timestamps = <<>>
    /\ Blank

Next == PrepareWindows \/ FilterWindows \/ EstimateWindows \/ FindAndFilterMissingData

Spec == Init /\ [][Next]_vars

\* the deduplicator alone, on any list of time-sorted windows
WindowChoices == SortedSeriesUpTo(2, {2, 4}, WindowRR)

InitFilter ==
    /\ entry = "filter_windows_with_chunked_dataframe"
    /\ pc = "filter"
    /\ data = <<>>
    /\ step_frequency = 2
    /\ window_size = 2
    /\ method = "RMSSD"
    /\ HRV_divided_series = <<>>
    /\ median_timestamps = <<>>
    /\ Blank
    /\ \E n \in 0..MaxWindows : divided_series \in [1..n -> WindowChoices]

SpecFilter == InitFilter /\ [][FilterWindows]_vars

\* one estimator alone, on any time-sorted series
EstimatorTimes == {2, 4, 8}

InitEstimator ==
    /\ entry \in {"RMSSD_HRV_calculation", "SDNN_HRV_calculation", "pNN50_HRV_calculation"}
    /\ pc = "call"
    /\ data \in SortedSeriesUpTo(MaxEstLen, EstimatorTimes, EstimatorRR)
    /\ step_frequency = 2
    /\ window_size = 2
    /\ method = "RMSSD"
    /\ divided_series = <<>>
    /\ HRV_divided_series = <<>>
    /\ median_timestamps = <<>>
    /\ Blank

NextEstimator == CallRMSSD \/ CallSDNN \/ CallpNN50

SpecEstimator == InitEstimator /\ [][NextEstimator]_vars

\* the missing-data filter alone, on any two arrays of one length
ResultValues == {Zero, Ratio(1, 1000000000), Ratio(1, 2), NaN}

ResultTimes == {Epoch, 2}

InitMissing ==
    /\ entry = "find_and_filter_missing_data"
    /\ pc = "missing"
    /\ data = <<>>
    /\ step_frequency = 2
    /\ window_size = 2
    /\ method \in Methods
    /\ divided_series = <<>>
    /\ Blank
    /\ \E n \in 0..MaxResults :
          /\ HRV_divided_series \in [1..n -> ResultValues]
          /\ median_timestamps \in [1..n -> ResultTimes]

SpecMissing == InitMissing /\ [][FindAndFilterMissingData]_vars

(***************************************************************************)
(* Properties of the WindowSlicer.                                         *)
(***************************************************************************)
\* the slicer has returned its list (it never returns an empty one)
SlicerReturned == divided_series # <<>>

\* start time of window i
StartOf(i) == data[1].t + (i - 1) * step_frequency

\* C1: window i holds exactly the entries with
\* start_i <= t <= start_i + window_size, both ends inclusive, in series order.
C1_WindowMembership ==
    SlicerReturned =>
        \A i \in 1..Len(divided_series) :
            divided_series[i] =
                SelectSeq(data, LAMBDA r : StartOf(i) <= r.t /\ r.t <= StartOf(i) + window_size)

\* an entry on the closing bound of window i that is also the start of
\* window i+1 and is held by both
C1_Witness ==
    /\ SlicerReturned
    /\ \E i \in 1..(Len(divided_series) - 1) :
         \E j \in 1..Len(divided_series[i]) :
            /\ divided_series[i][j].t = StartOf(i) + window_size
            /\ divided_series[i][j].t = StartOf(i + 1)
            /\ divided_series[i + 1] # <<>>
            /\ divided_series[i + 1][1] = divided_series[i][j]

\* C2: one window for every start time t0 + k*step <= tN, in increasing start
\* order, i.e. floor((tN - t0) / step) + 1 windows, the first starting at t0;
\* empty windows stay in the list.
C2_WindowCount ==
    SlicerReturned =>
        LET t0 == data[1].t
            tN == data[Len(data)].t
        IN /\ Len(divided_series) = (tN - t0) \div step_frequency + 1
           /\ Len(divided_series) =
                  Cardinality({k \in 0..(tN - t0) : t0 + k * step_frequency <= tN})
           /\ divided_series[1] # <<>>
           /\ divided_series[1][1] = data[1]
           /\ \A i \in 1..Len(divided_series) :
                 \A j \in 1..Len(divided_series[i]) :
                    /\ divided_series[i][j].t >= t0 + (i - 1) * step_frequency
                    /\ divided_series[i][j].t <= tN

\* a list of at least three windows with an empty one in it, the last start
\* falling exactly on tN
C2_Witness ==
    /\ SlicerReturned
    /\ Len(divided_series) >= 3
    /\ \E i \in 1..Len(divided_series) : divided_series[i] = <<>>
    /\ StartOf(Len(divided_series)) = data[Len(data)].t

\* C3: the slicer fails with an assertion error, producing no window, if and
\* only if step_frequency > window_size; equality is accepted.
C3_StepAboveWindowFails ==
    pc # "prepare" =>
        /\ (error = "AssertionError") <=> (step_frequency > window_size)
        /\ error = "AssertionError" => (pc = "failed" /\ divided_series = <<>>)
        /\ (step_frequency = window_size /\ Len(data) >= 2) => SlicerReturned

C3_Witness ==
    /\ pc = "failed"
    /\ error = "AssertionError"
    /\ entry = "calculate_HRV_in_windows"
    /\ Len(data) >= 2
    /\ divided_series = <<>>

(***************************************************************************)
(* Properties of the WindowDeduplicator.                                   *)
(***************************************************************************)
\* window i matches the window after it: both non-empty, same first
\* timestamp, same number of entries
MatchesNext(ws, i) ==
    /\ i < Len(ws)
    /\ ws[i] # <<>>
    /\ ws[i + 1] # <<>>
    /\ ws[i][1].t = ws[i + 1][1].t
    /\ Len(ws[i]) = Len(ws[i + 1])

RECURSIVE Deduplicated(_, _)
\* the windows from position i on, without those matching their successor
Deduplicated(ws, i) ==
    IF i > Len(ws) THEN <<>>
    ELSE IF MatchesNext(ws, i) THEN Deduplicated(ws, i + 1)
    ELSE <<SeriesObj(ws[i])>> \o Deduplicated(ws, i + 1)

\* C4: the deduplicator removes window i-1 exactly when windows i-1 and i are
\* both non-empty and agree in first timestamp and length; every other window
\* is returned, in the original order.
C4_RemovesExactlyAdjacentDuplicates ==
    (entry = "filter_windows_with_chunked_dataframe" /\ pc # "filter") =>
        /\ error = "none"
        /\ filtered_series = Deduplicated(divided_series, 1)

(***************************************************************************)
(* Properties of the HRVEstimators.                                        *)
(***************************************************************************)
\* the squared differences of the consecutive pairs at most two seconds apart
PairsWithinTwoSeconds(series) ==
    LET close == {i \in 2..Len(series) : series[i].t - series[i - 1].t <= TwoSeconds}
        all == [i \in 1..(Len(series) - 1) |->
                   (series[i + 1].v - series[i].v) * (series[i + 1].v - series[i].v)]
    IN Keep(all, {i - 1 : i \in close})

\* C5: for a series of at least two entries RMSSD is the square root of the
\* mean of the squared successive differences over exactly the consecutive
\* pairs, first to last, whose timestamps are at most 2 seconds apart.
C5_RMSSDOverPairsWithinTwoSeconds ==
    (entry = "RMSSD_HRV_calculation" /\ pc = "returned" /\ Len(data) >= 2) =>
        LET pairs == PairsWithinTwoSeconds(data)
        IN SameValue(ret, IF pairs = <<>> THEN NaN
                          ELSE SqrtOf(SumSeq(pairs), Len(pairs)))

\* C6: RMSSD, SDNN and pNN50 each return 0 for every series of length 0 or 1,
\* without raising.
C6_ZeroOnEmptyOrSingleton ==
    (pc = "returned" /\ Len(data) <= 1
        /\ entry \in {"RMSSD_HRV_calculation", "SDNN_HRV_calculation",
                      "pNN50_HRV_calculation"}) =>
        /\ ret = Zero
        /\ error = "none"

C6_Witness ==
    /\ pc = "returned"
    /\ entry = "SDNN_HRV_calculation"
    /\ Len(data) = 1
    /\ ret = Zero

\* the values that are at most 2000, in series order
ValuesUpTo2000(series) ==
    LET rows == SelectSeq(series, LAMBDA r : r.v <= OutlierRR)
    IN [i \in 1..Len(rows) |-> rows[i].v]

\* C7: for a series of at least two entries pNN50 discards every value above
\* 2000 and returns NN50 / D over the successive differences of the remaining
\* values (NN50: those of absolute value above 50), 0.0 when NN50 is 0; the
\* result lies in [0, 1].
C7_pNN50OverValuesUpTo2000 ==
    (entry = "pNN50_HRV_calculation" /\ pc = "returned" /\ Len(data) >= 2) =>
        LET rest == ValuesUpTo2000(data)
            D == IF rest = <<>> THEN 0 ELSE Len(rest) - 1
            NN50 == Cardinality({i \in 1..D : Abs(rest[i + 1] - rest[i]) > NN50Limit})
        IN /\ SameValue(ret, IF NN50 = 0 THEN Zero ELSE Ratio(NN50, D))
           /\ ~ret.nan /\ ~ret.root /\ 0 <= ret.num /\ ret.num <= ret.den

(***************************************************************************)
(* Properties of calculate_HRV_in_windows.                                 *)
(***************************************************************************)
Returned == entry = "calculate_HRV_in_windows" /\ pc = "returned"

\* the k-th smallest member of a set of indices
RECURSIVE Nth(_, _)
Nth(S, k) ==
    LET m == CHOOSE x \in S : \A y \in S : x <= y
    IN IF k = 1 THEN m ELSE Nth(S \ {m}, k - 1)

\* the sets of windows the results can stem from, one window per result
Origins(n) == {S \in SUBSET (1..Len(filtered_series)) : Cardinality(S) = n}

\* C8: the estimator is invoked only on deduplicated windows with more than
\* one entry; windows of 0 or 1 entries yield no output element; the value
\* and timestamp arrays have one length and element k of both stems from the
\* same window, in window order.
C8_ResultsPairedPerWindow ==
    Returned =>
        /\ \A i \in invoked : filtered_series[i].series /\ Len(filtered_series[i].rows) > 1
        /\ Len(HRV_results) = Len(timestamps)
        /\ \E S \in Origins(Len(HRV_results)) :
              \A k \in 1..Len(HRV_results) :
                 LET w == filtered_series[Nth(S, k)].rows
                 IN /\ Len(w) > 1
                    /\ HRV_results[k] = Estimator(method, w)
                    /\ timestamps[k] = MedianTimestamp(w)

\* a run with a one-entry window that yields nothing and two results from
\* two different windows
C8_Witness ==
    /\ Returned
    /\ method = "pNN50"
    /\ Len(HRV_results) = 2
    /\ Len(filtered_series) > 2
    /\ \E i \in 1..Len(filtered_series) : Len(filtered_series[i].rows) = 1
    /\ HRV_results[1] # HRV_results[2]
    /\ timestamps[1] < timestamps[2]

\* twice the median of the timestamps of a time-sorted window: the middle
\* one for an odd count, the midpoint of the two middle ones for an even one
TwiceMiddle(w) ==
    LET n == Len(w)
    IN IF n % 2 = 1 THEN 2 * w[(n + 1) \div 2].t
       ELSE w[n \div 2].t + w[n \div 2 + 1].t

\* C9: every result timestamp is the median of the timestamps of its window;
\* it lies between the first and the last timestamp of that window.
C9_TimestampIsWindowMedian ==
    (entry = "calculate_HRV_in_windows" /\ pc \in {"missing", "returned"}) =>
        /\ \A i \in invoked :
              LET w == filtered_series[i].rows
              IN /\ 2 * median_timestamps[i] = TwiceMiddle(w)
                 /\ w[1].t <= median_timestamps[i]
                 /\ median_timestamps[i] <= w[Len(w)].t
        /\ \A k \in 1..Len(timestamps) :
              \E i \in invoked : timestamps[k] = median_timestamps[i]

\* a returned timestamp that is the timestamp of no entry of the series
C9_Witness ==
    /\ Returned
    /\ \E k \in 1..Len(timestamps) :
          \A j \in 1..Len(data) : data[j].t # timestamps[k]

(***************************************************************************)
(* Properties of the MissingDataFilter.                                    *)
(***************************************************************************)
\* position k of the arguments is to be removed
IsMissing(k) ==
    \/ method # "pNN50" /\ Below1e8(HRV_divided_series[k])
    \/ median_timestamps[k] = Epoch

RECURSIVE Survivors(_)
\* the positions from k on that are not to be removed, in order
Survivors(k) ==
    IF k > Len(HRV_divided_series) THEN <<>>
    ELSE IF IsMissing(k) THEN Survivors(k + 1)
    ELSE <<k>> \o Survivors(k + 1)

\* C10: position k leaves both arrays exactly when (method is not 'pNN50' and
\* value[k] < 1e-8) or timestamp[k] is 1970-01-01T00:00:00; the other
\* positions stay in order and paired; with 'pNN50' a 0 with another
\* timestamp is retained.
C10_MissingDataRemovedInLockstep ==
    (entry = "find_and_filter_missing_data" /\ pc = "returned") =>
        LET kept == Survivors(1)
        IN /\ HRV_results = [j \in 1..Len(kept) |-> HRV_divided_series[kept[j]]]
           /\ timestamps = [j \in 1..Len(kept) |-> median_timestamps[kept[j]]]
           /\ Len(HRV_results) = Len(timestamps)

\* 'pNN50': a 0 is retained while an entry at the epoch is removed
C10_Witness ==
    /\ entry = "find_and_filter_missing_data"
    /\ pc = "returned"
    /\ method = "pNN50"
    /\ Len(HRV_results) < Len(HRV_divided_series)
    /\ \E k \in 1..Len(HRV_results) : HRV_results[k] = Zero /\ timestamps[k] # Epoch

(***************************************************************************)
(* BeatFilterPipeline: the filter stages of src/utils_preprocessing.py.    *)
(*                                                                         *)
(* A dataframe is a sequence of rows [i |-> index label, t |-> 'Phone      *)
(* timestamp' in ticks, v |-> RR interval in ms] in stored order; stored   *)
(* order need not be time order.  Index labels of a frame are distinct,    *)
(* as pd.read_csv, drop and reset_index leave them.                        *)
(***************************************************************************)
MaxRows == 4         \* rows of a dataframe handed to a filter stage
MaxTick == 4         \* timestamps of those rows lie in 0..MaxTick

Ticks == 0..MaxTick
Spans == {0, 1, 2}                      \* pd.Timedelta arguments, in ticks

Beat(i, t, v) == [i |-> i, t |-> t, v |-> v]

\* data.index.values as a set
IndexValues(df) == {df[p].i : p \in 1..Len(df)}

\* data['Phone timestamp'].values as a set
TimestampValues(df) == {df[p].t : p \in 1..Len(df)}

\* data.drop(labels): the rows whose index label is not in labels
Drop(df, labels) ==
    LET Stays(row) == row.i \notin labels
    IN SelectSeq(df, Stays)

\* data[(data['Phone timestamp'] >= start) & (data['Phone timestamp'] <= end)].index
IndexBetween(df, start, end) ==
    {df[p].i : p \in {q \in 1..Len(df) : df[q].t >= start /\ df[q].t <= end}}

\* np.argwhere(indices == label).flatten()[0]
current_position(df, label) ==
    CHOOSE p \in 1..Len(df) :
        /\ df[p].i = label
        /\ \A q \in 1..(p - 1) : df[q].i # label

\* variant: current_max stays at the timestamp of the first row
current_max_neverUpdated(df, p) == df[1].t

\* variant: the timestamp of row p alone instead of the running maximum
current_max_previousRow(df, p) == df[p].t

\* current_max after the loop of remove_negative_timestamps has visited row p
RECURSIVE current_max(_, _)
current_max(df, p) ==
    IF p = 1 THEN df[1].t
    ELSE LET before == current_max(df, p - 1)
         IN IF df[p].t > before THEN df[p].t ELSE before

\* deltas['difference'] of row p
difference(df, p) == IF p = 1 THEN 0 ELSE df[p].t - current_max(df, p - 1)

\* index labels of the rows with a negative difference
deltas(df) == {df[p].i : p \in {q \in 1..Len(df) : difference(df, q) < 0}}

\* the labels queued for one rewind: itself and its neighbours by position
values_to_remove(df, label) ==
    LET p == current_position(df, label)
    IN IF p = 1 THEN {label} \cup {df[q].i : q \in {2} \cap (1..Len(df))}
       ELSE IF p = Len(df) THEN {df[p - 1].i, label}
       ELSE {df[p - 1].i, label, df[p + 1].i}

\* the exception remove_negative_timestamps ends with, if any: indices[0]
NegativeTimestampsError(df) == IF df = <<>> THEN "IndexError" ELSE "none"

remove_negative_timestamps(df) ==
    Drop(df, UNION {values_to_remove(df, label) : label \in deltas(df)})

\* the exception remove_first_and_last_indices ends with, if any: data.iloc[0]
FirstAndLastError(df) == IF df = <<>> THEN "IndexError" ELSE "none"

\* variant: rows exactly on a cut timestamp stay
remove_first_and_last_indices_open(df, initial_cut_window, end_cut_window) ==
    LET first_cut_timestamp == df[1].t + initial_cut_window
        last_cut_timestamp == df[Len(df)].t - end_cut_window
    IN Drop(df, {df[p].i : p \in {q \in 1..Len(df) :
                                     \/ df[q].t < first_cut_timestamp
                                     \/ df[q].t > last_cut_timestamp}})

remove_first_and_last_indices(df, initial_cut_window, end_cut_window) ==
    LET first_cut_timestamp == df[1].t + initial_cut_window
        last_cut_timestamp == df[Len(df)].t - end_cut_window
        initial_indices_to_remove ==
            {df[p].i : p \in {q \in 1..Len(df) : df[q].t <= first_cut_timestamp}}
        last_indices_to_remove ==
            {df[p].i : p \in {q \in 1..Len(df) : df[q].t >= last_cut_timestamp}}
    IN Drop(df, initial_indices_to_remove \cup last_indices_to_remove)

\* ranges_to_remove is a sequence of <<start, end>>; each is dropped in turn
RECURSIVE remove_selected_time_ranges(_, _)
remove_selected_time_ranges(df, ranges_to_remove) ==
    IF ranges_to_remove = <<>> THEN df
    ELSE LET range == Head(ranges_to_remove)
         IN remove_selected_time_ranges(
                Drop(df, IndexBetween(df, range[1], range[2])),
                Tail(ranges_to_remove))

\* variant: a gap equal to hole_size counts as a hole as well
holes_closed(df, p, hole_size) ==
    LET earlier == {df[q].t : q \in 1..Len(df)} \cap (0..(df[p].t - 1))
        previous == CHOOSE t \in earlier : \A u \in earlier : u <= t
    IN /\ earlier # {}
       /\ \A q \in 1..(p - 1) : df[q].t # df[p].t
       /\ df[p].t - previous >= hole_size

\* data['Phone timestamp'].sort_values().diff() > hole_size, for row p: the
\* gap to the entry sorted just before it.  Of rows with one timestamp the
\* sort puts one first; whichever it is, the flagged timestamp is the same,
\* so the first in stored order is taken.
holes(df, p, hole_size) ==
    LET earlier == {df[q].t : q \in 1..Len(df)} \cap (0..(df[p].t - 1))
        previous == CHOOSE t \in earlier : \A u \in earlier : u <= t
    IN /\ earlier # {}
       /\ \A q \in 1..(p - 1) : df[q].t # df[p].t
       /\ df[p].t - previous > hole_size

\* the positions in S in stored order
RECURSIVE InStoredOrder(_)
InStoredOrder(S) ==
    IF S = {} THEN <<>>
    ELSE LET p == CHOOSE q \in S : \A r \in S : q <= r
         IN <<p>> \o InStoredOrder(S \ {p})

remove_consecutive_beats_after_holes(df, hole_time, window_time) ==
    LET after == InStoredOrder({p \in 1..Len(df) : holes(df, p, hole_time)})
        timeranges_to_remove ==
            [k \in 1..Len(after) |-> <<df[after[k]].t, df[after[k]].t + window_time>>]
    IN remove_selected_time_ranges(df, timeranges_to_remove)

\* variant: only the beats after a flagged one are removed
remove_adjacent_beats_forward(df, flagged, time) ==
    LET selected == InStoredOrder({p \in 1..Len(df) : df[p].i \in flagged})
    IN remove_selected_time_ranges(
           df, [k \in 1..Len(selected) |-> <<df[selected[k]].t, df[selected[k]].t + time>>])

remove_adjacent_beats(df, flagged, time) ==
    LET existing_and_selected_indices == IndexValues(df) \cap flagged
        selected == InStoredOrder({p \in 1..Len(df) :
                                      df[p].i \in existing_and_selected_indices})
        timeranges_to_remove ==
            [k \in 1..Len(selected) |-> <<df[selected[k]].t - time, df[selected[k]].t + time>>]
    IN remove_selected_time_ranges(df, timeranges_to_remove)

\* np.sort of an array (repeated entries stay)
RECURSIVE Sort(_)
Sort(a) ==
    IF a = <<>> THEN <<>>
    ELSE LET k == CHOOSE j \in 1..Len(a) : \A l \in 1..Len(a) : a[j] <= a[l]
         IN <<a[k]>> \o Sort(Keep(a, (1..Len(a)) \ {k}))

\* x in a, for an array or list a
Contains(a, x) == \E k \in 1..Len(a) : a[k] = x

\* the adjacent indices the inner loop appends for one index
AppendAdjacent(to_remove, length, found, index) ==
    LET Accepts(list, adj_index) ==
            /\ adj_index >= 0
            /\ adj_index < length
            /\ ~Contains(to_remove, adj_index)
            /\ ~Contains(list, adj_index)
        first == IF Accepts(found, index - 1) THEN Append(found, index - 1) ELSE found
    IN IF Accepts(first, index + 1) THEN Append(first, index + 1) ELSE first

\* new_indices_to_remove after the loop has visited the first n indices
RECURSIVE new_indices_to_remove(_, _, _)
new_indices_to_remove(to_remove, length, n) ==
    IF n = 0 THEN <<>>
    ELSE AppendAdjacent(to_remove, length,
                        new_indices_to_remove(to_remove, length, n - 1), to_remove[n])

\* the exception remove_preceding_and_following_beat ends with, if any; the
\* closing assertion compares a length with itself and never fails
PrecedingAndFollowingError(to_remove, length) ==
    IF \E k \in 1..Len(to_remove) : to_remove[k] >= length
    THEN "AssertionError" ELSE "none"

\* indices are positions counted from 0
remove_preceding_and_following_beat(to_remove, length) ==
    Sort(to_remove \o new_indices_to_remove(to_remove, length, Len(to_remove)))

\* (group, number) pairs with an entry in the table of remove_manually_anomalies;
\* the part of the table that is modelled: treatment 1 and control 1
ListedSubjects == {<<"treatment", 1>>, <<"control", 1>>}

\* the timestamps the rules of a listed subject match: each entry of the
\* table is a disjunction of closed clock-time ranges, the first of
\* treatment 1 and control 1 open to the past; the clock times are moved
\* into the explored ticks
RuleMatches(group, number, t) ==
    IF group = "treatment"
    THEN t <= 0 \/ (t >= 3 /\ t <= 3)
    ELSE t <= 1 \/ (t >= 4 /\ t <= 4)

\* np.concatenate(mask): the positions (from 0) of the matched rows, ascending
rows_to_remove(df, group, number) ==
    LET matched == InStoredOrder({p \in 1..Len(df) : RuleMatches(group, number, df[p].t)})
    IN [k \in 1..Len(matched) |-> matched[k] - 1]

\* variant: an unknown group label is passed through
ManualAnomaliesError_lenient(group) == "none"

\* the exception remove_manually_anomalies ends with, if any
ManualAnomaliesError(group) ==
    IF group \notin {"treatment", "control"} THEN "ValueError" ELSE "none"

remove_manually_anomalies(df, group, number) ==
    IF <<group, number>> \notin ListedSubjects THEN df
    ELSE LET rows == rows_to_remove(df, group, number)
         IN IF Len(rows) > 0
            THEN LET expanded == remove_preceding_and_following_beat(rows, Len(df))
                 IN Drop(df, {df[expanded[k] + 1].i : k \in 1..Len(expanded)})
            ELSE df

\* np.setdiff1d(original_timestamps, current_timestamps)
removed_timestamps(original_data, current_data) ==
    TimestampValues(original_data) \ TimestampValues(current_data)

\* the removed timestamps between the first and the last row of current_data
filtering_extreme_timestamps(original_data, current_data) ==
    LET min_timestamp == current_data[1].t
        max_timestamp == current_data[Len(current_data)].t
    IN {t \in removed_timestamps(original_data, current_data) :
           ~(t < min_timestamp \/ t > max_timestamp)}

\* original_data[original_data["Phone timestamp"].isin(...)]: stored order
RowsAt(original_data, stamps) ==
    LET At(row) == row.t \in stamps
    IN SelectSeq(original_data, At)

\* the exception interpolate_data_with_splines ends with, if any:
\* current_data.iloc[0] of an empty frame; CubicSpline of fewer than two
\* points or of x not strictly increasing; predictions.values assigned to a
\* different number of rows
InterpolationError(original_data, current_data) ==
    IF current_data = <<>> THEN "IndexError"
    ELSE IF \/ Len(current_data) < 2
            \/ \E p \in 1..(Len(current_data) - 1) :
                   current_data[p].t >= current_data[p + 1].t
         THEN "ValueError"
    ELSE LET stamps == filtering_extreme_timestamps(original_data, current_data)
         IN IF Len(RowsAt(original_data, stamps)) # Cardinality(stamps)
            THEN "ValueError" ELSE "none"

\* number of values the spline is evaluated at
PredictionCount(original_data, current_data) ==
    IF InterpolationError(original_data, current_data) # "none" THEN 0
    ELSE Cardinality(filtering_extreme_timestamps(original_data, current_data))

\* variant: no prediction is discarded
OutOfRange_none(rows, original_range) == {}

\* index labels of the rows with a value below np.min or above np.max of
\* current_data's values
OutOfRange(rows, original_range) ==
    {rows[p].i : p \in {q \in 1..Len(rows) :
        \/ \A v \in original_range : rows[q].v < v
        \/ \A v \in original_range : rows[q].v > v}}

\* variant: reset_index(drop=True) without sort_values
SortValues_concatenated(rows, label) ==
    [k \in 1..Len(rows) |-> Beat(label + k - 1, rows[k].t, rows[k].v)]

\* sort_values(by=["Phone timestamp"]).reset_index(drop=True) of rows with
\* distinct timestamps
RECURSIVE SortValues(_, _)
SortValues(rows, label) ==
    IF rows = <<>> THEN <<>>
    ELSE LET k == CHOOSE j \in 1..Len(rows) : \A l \in 1..Len(rows) : rows[j].t <= rows[l].t
         IN <<Beat(label, rows[k].t, rows[k].v)>>
                \o SortValues(Keep(rows, (1..Len(rows)) \ {k}), label + 1)

\* predictions[k] is the (rounded) value of the spline at the k-th smallest
\* of the filtered timestamps; it is written to the k-th selected row
interpolate_data_with_splines(original_data, current_data, predictions) ==
    LET stamps == filtering_extreme_timestamps(original_data, current_data)
        selected == RowsAt(original_data, stamps)
        modified_rows ==
            [k \in 1..Len(selected) |-> Beat(selected[k].i, selected[k].t, predictions[k])]
        original_range == {current_data[p].v : p \in 1..Len(current_data)}
        evaluated == Drop(modified_rows, OutOfRange(modified_rows, original_range))
    IN [modified_dataframe |-> SortValues(evaluated \o current_data, 0),
        predictions |-> predictions,
        filtering_extreme_timestamps |-> stamps]

(***************************************************************************)
(* Calls of single filter stages.                                          *)
(***************************************************************************)
\* variant: no stage copies the frame it is given
CopiesFirst_never == {}

\* stages that start with data = data.copy()
CopiesFirst ==
    {"remove_negative_timestamps", "remove_first_and_last_indices",
     "remove_consecutive_beats_after_holes", "remove_adjacent_beats",
     "remove_selected_time_ranges", "interpolate_data_with_splines"}

\* stages that drop rows with inplace=True
DropsInPlace ==
    {"remove_negative_timestamps", "remove_first_and_last_indices",
     "remove_selected_time_ranges", "interpolate_data_with_splines"}

\* the caller's dataframe after a stage that returned value: an in-place drop
\* reaches the caller's object unless the stage works on its own copy
CallerFrameAfter(name, df, value) ==
    IF name \in DropsInPlace /\ name \notin CopiesFirst THEN value ELSE df

\* one call of stage name, ending with exception e or returning value
CallStage(name, e, value) ==
    /\ pc = "call"
    /\ entry = name
    /\ IF e # "none"
          THEN Fail(e) /\ UNCHANGED <<data, output>>
          ELSE /\ output' = value
               /\ data' = CallerFrameAfter(name, data, value)
               /\ pc' = "returned"
               /\ UNCHANGED error
    /\ UNCHANGED <<entry, windowing, args, stages, data_before_DWT, filtered_indices>>

CallRemoveNegativeTimestamps ==
    CallStage("remove_negative_timestamps", NegativeTimestampsError(data),
              remove_negative_timestamps(data))

CallRemoveFirstAndLastIndices ==
    CallStage("remove_first_and_last_indices", FirstAndLastError(data),
              remove_first_and_last_indices(data, args.initial_cut_window,
                                            args.end_cut_window))

CallRemoveConsecutiveBeatsAfterHoles ==
    CallStage("remove_consecutive_beats_after_holes", "none",
              remove_consecutive_beats_after_holes(data, args.hole_time,
                                                   args.window_time))

CallRemoveAdjacentBeats ==
    CallStage("remove_adjacent_beats", "none",
              remove_adjacent_beats(data, args.filtered_indices, args.time))

CallRemovePrecedingAndFollowingBeat ==
    CallStage("remove_preceding_and_following_beat",
              PrecedingAndFollowingError(args.to_remove, args.length),
              remove_preceding_and_following_beat(args.to_remove, args.length))

CallRemoveManuallyAnomalies ==
    CallStage("remove_manually_anomalies", ManualAnomaliesError(args.group),
              remove_manually_anomalies(data, args.group, args.number))

\* values a spline through RR intervals of 700 and more can take, rounded
PredictedRR == {690, 700, 715, 800}

\* original_data is the frame in data_before_DWT, current_data the one in data
CallInterpolateDataWithSplines ==
    \E predictions \in [1..PredictionCount(data_before_DWT, data) -> PredictedRR] :
        CallStage("interpolate_data_with_splines",
                  InterpolationError(data_before_DWT, data),
                  interpolate_data_with_splines(data_before_DWT, data, predictions))

CallRemoveSelectedTimeRanges ==
    CallStage("remove_selected_time_ranges", "none",
              remove_selected_time_ranges(data, args.ranges_to_remove))

(***************************************************************************)
(* Specifications of single filter stages.                                 *)
(***************************************************************************)
\* the windowing state, unused by the filter stages
BlankWindowing ==
    /\ step_frequency = 2
    /\ window_size = 2
    /\ method = "RMSSD"
    /\ divided_series = <<>>
    /\ filtered_series = <<>>
    /\ invoked = {}
    /\ HRV_divided_series = <<>>
    /\ median_timestamps = <<>>
    /\ HRV_results = <<>>
    /\ timestamps = <<>>
    /\ ret = NaN

\* index labels of the explored frames: a RangeIndex, or one with gaps as
\* an earlier drop leaves it
IndexKinds == {"range", "gapped"}

IndexLabel(kind, p) == IF kind = "range" THEN p - 1 ELSE 2 * p + 1

\* RR interval of the row with index label i
BeatRR(i) == 700 + 10 * i

\* every frame of n rows with the given index and timestamps in Ticks
Frames(n) ==
    {[p \in 1..n |-> Beat(IndexLabel(kind, p), ts[p], BeatRR(IndexLabel(kind, p)))] :
        kind \in IF n = 0 THEN {"range"} ELSE IndexKinds, ts \in [1..n -> Ticks]}

\* a direct call of stage name on frame data with the arguments in args
InitStage(name) ==
    /\ entry = name
    /\ pc = "call"
    /\ error = "none"
    /\ \E n \in 0..MaxRows : data \in Frames(n)
    /\ output = <<>>
    /\ stages = <<>>
    /\ data_before_DWT = <<>>
    /\ filtered_indices = {}
    /\ BlankWindowing

InitNegative == InitStage("remove_negative_timestamps") /\ args = [none |-> TRUE]

SpecNegative == InitNegative /\ [][CallRemoveNegativeTimestamps]_vars

InitEdges ==
    /\ InitStage("remove_first_and_last_indices")
    /\ args \in [initial_cut_window : Spans, end_cut_window : Spans]

SpecEdges == InitEdges /\ [][CallRemoveFirstAndLastIndices]_vars

InitHoles ==
    /\ InitStage("remove_consecutive_beats_after_holes")
    /\ args \in [hole_time : Spans, window_time : Spans]

SpecHoles == InitHoles /\ [][CallRemoveConsecutiveBeatsAfterHoles]_vars

\* flagged index sets: none, labels of rows, and labels no row has
FlaggedChoices == {{}, {0}, {1, 3}, {2, 8}}

InitAdjacent ==
    /\ InitStage("remove_adjacent_beats")
    /\ args \in [filtered_indices : FlaggedChoices, time : Spans]

SpecAdjacent == InitAdjacent /\ [][CallRemoveAdjacentBeats]_vars

MaxIndices == 3      \* entries of a list of indices
MaxLength == 3       \* length of the dataframe the indices refer to

\* lists of indices, some of them outside [0, length)
IndexLists == UNION {[1..n -> -1..MaxLength] : n \in 0..MaxIndices}

InitNeighbours ==
    /\ entry = "remove_preceding_and_following_beat"
    /\ pc = "call"
    /\ error = "none"
    /\ data = <<>>
    /\ args \in [to_remove : IndexLists, length : 0..MaxLength]
    /\ output = <<>>
    /\ stages = <<>>
    /\ data_before_DWT = <<>>
    /\ filtered_indices = {}
    /\ BlankWindowing

SpecNeighbours == InitNeighbours /\ [][CallRemovePrecedingAndFollowingBeat]_vars

\* group labels and subject numbers: listed, unlisted and unknown
Groups == {"treatment", "control", "placebo"}

Numbers == {1, 4}

InitManual ==
    /\ InitStage("remove_manually_anomalies")
    /\ args \in [group : Groups, number : Numbers]

SpecManual == InitManual /\ [][CallRemoveManuallyAnomalies]_vars

\* original_data is any frame with a RangeIndex, current_data what is left of
\* it after some rows were dropped
InitSpline ==
    /\ entry = "interpolate_data_with_splines"
    /\ pc = "call"
    /\ error = "none"
    /\ \E n \in 0..MaxRows :
           data_before_DWT \in {df \in Frames(n) : df = <<>> \/ df[1].i = 0}
    /\ \E kept \in SUBSET (1..Len(data_before_DWT)) : data = Keep(data_before_DWT, kept)
    /\ args = [column_name |-> "RR-interval [ms]"]
    /\ output = <<>>
    /\ stages = <<>>
    /\ filtered_indices = {}
    /\ BlankWindowing

SpecSpline == InitSpline /\ [][CallInterpolateDataWithSplines]_vars

\* the filter stages that take one frame, with one set of arguments each
FrameStages ==
    {"remove_negative_timestamps", "remove_first_and_last_indices",
     "remove_consecutive_beats_after_holes", "remove_adjacent_beats",
     "remove_selected_time_ranges", "remove_manually_anomalies"}

\* a call of any filter stage or of calculate_HRV_in_windows on a frame
InitFrame ==
    \/ \E name \in FrameStages :
           /\ InitStage(name)
           /\ args \in [initial_cut_window : {1}, end_cut_window : {1}, hole_time : {1},
                        window_time : {1}, filtered_indices : {{1, 3}}, time : {1},
                        ranges_to_remove : {<<<<1, 2>>, <<4, 4>>>>},
                        group : IF name = "remove_manually_anomalies"
                                THEN Groups ELSE {"treatment"},
                        number : {1}]
    \/ InitSpline /\ Len(data_before_DWT) < MaxRows
    \/ Init /\ entry = "calculate_HRV_in_windows" /\ method \in {"RMSSD", "other"}

NextFrame ==
    \/ CallRemoveNegativeTimestamps
    \/ CallRemoveFirstAndLastIndices
    \/ CallRemoveConsecutiveBeatsAfterHoles
    \/ CallRemoveAdjacentBeats
    \/ CallRemoveSelectedTimeRanges
    \/ CallRemoveManuallyAnomalies
    \/ CallInterpolateDataWithSplines
    \/ Next

SpecFrame == InitFrame /\ [][NextFrame]_vars

(***************************************************************************)
(* The loader: load_and_preprocess_data_for_single_person of               *)
(* src/utils_loading.py, from the loaded frame on.  pc is the name of the  *)
(* stage called next; stages records, for every stage that returned, the   *)
(* frame it was given and the frame the loader went on with.               *)
(***************************************************************************)
MaxBeats == 6        \* rows of a loaded recording
MaxIndicated == 4    \* greatest index the wavelet detection flags

WaveletLength == 10  \* decomposition filter length of 'db5'

\* data.reset_index(drop=True)
reset_index(df) == [p \in 1..Len(df) |-> Beat(p - 1, df[p].t, df[p].v)]

\* length of the detail coefficients pywt.dwt returns for n samples
DetailLength(n) == (n + WaveletLength - 1) \div 2

\* indicated_indices is twice the positions of the detail coefficients above
\* the threshold; which ones exceed it is left open
IndicatedChoices(n) ==
    SUBSET ({2 * k : k \in 0..(DetailLength(n) - 1)} \cap (0..MaxIndicated))

\* the exception select_indices_to_filtering ends with, if any: pywt.dwt
\* rejects an input without samples
DetectionError(df) == IF df = <<>> THEN "RuntimeError" ELSE "none"

Loader == "load_and_preprocess_data_for_single_person"

\* stages 1 to 4 run on a loaded frame and then once more on their output
Rerun == "stages_1_to_4_twice"

\* variant: post-hole suppression before edge trimming
FollowingStage_holesFirst(name) ==
    CASE name = "remove_negative_timestamps" -> "remove_consecutive_beats_after_holes"
      [] name = "remove_consecutive_beats_after_holes" -> "remove_first_and_last_indices"
      [] name = "remove_first_and_last_indices" -> "select_indices_to_filtering"
      [] name = "select_indices_to_filtering" -> "remove_adjacent_beats"
      [] name = "remove_adjacent_beats" -> "remove_manually_anomalies"
      [] name = "remove_manually_anomalies" ->
             IF args.parameters.interpolation
             THEN "interpolate_data_with_splines" ELSE "returned"
      [] OTHER -> "returned"

\* the statement that follows the call of stage name
FollowingStage(name) ==
    CASE name = "remove_negative_timestamps" -> "remove_first_and_last_indices"
      [] name = "remove_first_and_last_indices" -> "remove_consecutive_beats_after_holes"
      [] name = "remove_consecutive_beats_after_holes" -> "select_indices_to_filtering"
      [] name = "select_indices_to_filtering" -> "remove_adjacent_beats"
      [] name = "remove_adjacent_beats" ->
             IF entry = Loader THEN "remove_manually_anomalies"
             ELSE IF Len(stages) < 5 THEN "remove_negative_timestamps"
             ELSE "returned"
      [] name = "remove_manually_anomalies" ->
             IF args.parameters.interpolation
             THEN "interpolate_data_with_splines" ELSE "returned"
      [] OTHER -> "returned"

\* one stage of the loader: given is the frame handed to the stage, value
\* the frame assigned to data after it; output keeps the frame the loader
\* returned or, when stages 1 to 4 are run twice, what their first run left
LoaderStep(name, e, given, value) ==
    /\ entry \in {Loader, Rerun}
    /\ pc = name
    /\ IF e # "none"
          THEN Fail(e) /\ UNCHANGED <<data, stages, output>>
          ELSE /\ data' = value
               /\ stages' = Append(stages, [stage |-> name, given |-> given,
                                            returned |-> value])
               /\ pc' = FollowingStage(name)
               /\ output' = IF \/ entry = Loader /\ FollowingStage(name) = "returned"
                               \/ FollowingStage(name) = "remove_negative_timestamps"
                            THEN value ELSE output
               /\ UNCHANGED error
    /\ UNCHANGED <<entry, windowing, args>>

RepairNegativeTimestamps ==
    /\ LoaderStep("remove_negative_timestamps", NegativeTimestampsError(data),
                  data, remove_negative_timestamps(data))
    /\ UNCHANGED <<data_before_DWT, filtered_indices>>

TrimEdges ==
    /\ LoaderStep("remove_first_and_last_indices", FirstAndLastError(data), data,
                  remove_first_and_last_indices(
                      data, args.parameters.cut_time_from_start,
                      args.parameters.cut_time_before_finish))
    /\ UNCHANGED <<data_before_DWT, filtered_indices>>

SuppressAfterHoles ==
    /\ LoaderStep("remove_consecutive_beats_after_holes", "none", data,
                  remove_consecutive_beats_after_holes(
                      data, args.parameters.threshold_for_hole_duration,
                      args.parameters.time_after_hole_for_removing))
    /\ UNCHANGED <<data_before_DWT, filtered_indices>>

\* data.reset_index(drop=True), then select_indices_to_filtering
SelectIndicesToFiltering ==
    \E indicated_indices \in IndicatedChoices(Len(data)) :
        /\ LoaderStep("select_indices_to_filtering", DetectionError(reset_index(data)),
                      reset_index(data), reset_index(data))
        /\ filtered_indices' =
               IF DetectionError(reset_index(data)) = "none"
               THEN indicated_indices ELSE filtered_indices
        /\ UNCHANGED data_before_DWT

\* variant: the copy is taken of the frame as it was loaded
FrameBeforeDWT_loaded == stages[1].given

\* the frame data_before_DWT = data.copy() copies: data after reset_index
\* and the detection, before remove_adjacent_beats
FrameBeforeDWT == data

\* data_before_DWT = data.copy() if interpolation is wanted, then
\* remove_adjacent_beats
SuppressNeighbourhood ==
    /\ LoaderStep("remove_adjacent_beats", "none", data,
                  remove_adjacent_beats(data, filtered_indices,
                                        args.parameters.adjacent_beats_for_removing))
    /\ data_before_DWT' = IF args.parameters.interpolation THEN FrameBeforeDWT
                          ELSE data_before_DWT
    /\ UNCHANGED filtered_indices

ExcludeManually ==
    /\ LoaderStep("remove_manually_anomalies", ManualAnomaliesError(args.cur_person_group),
                  data, remove_manually_anomalies(data, args.cur_person_group,
                                                  args.cur_person_number))
    /\ UNCHANGED <<data_before_DWT, filtered_indices>>

Interpolate ==
    /\ \E predictions \in [1..PredictionCount(data_before_DWT, data) -> PredictedRR] :
           LoaderStep("interpolate_data_with_splines",
                      InterpolationError(data_before_DWT, data), data,
                      interpolate_data_with_splines(data_before_DWT, data,
                                                    predictions).modified_dataframe)
    /\ UNCHANGED <<data_before_DWT, filtered_indices>>

\* loaded recordings: a RangeIndex, the first beat at tick 0, every further
\* beat one or two ticks later or, after a clock glitch, one tick earlier
RECURSIVE Recording(_, _)
Recording(steps, p) ==
    IF p = 0 THEN <<>>
    ELSE LET before == Recording(steps, p - 1)
             t == IF p = 1 THEN 0 ELSE before[p - 1].t + steps[p]
         IN Append(before, Beat(p - 1, t, BeatRR(p - 1)))

Recordings ==
    UNION {{Recording(steps, n) : steps \in [1..n -> {-1, 1, 2}]} : n \in 1..MaxBeats}

LoaderParameters ==
    [cut_time_from_start : {0, 1}, cut_time_before_finish : {0},
     threshold_for_hole_duration : {1}, time_after_hole_for_removing : {0, 1},
     adjacent_beats_for_removing : {0, 1}, interpolation : BOOLEAN]

Subjects == {<<"treatment", 1>>, <<"control", 4>>, <<"placebo", 1>>}

InitLoader ==
    /\ entry = Loader
    /\ pc = "remove_negative_timestamps"
    /\ error = "none"
    /\ data \in Recordings
    /\ \E subject \in Subjects :
           args \in [parameters : LoaderParameters, cur_person_group : {subject[1]},
                     cur_person_number : {subject[2]}]
    /\ output = <<>>
    /\ stages = <<>>
    /\ data_before_DWT = <<>>
    /\ filtered_indices = {}
    /\ BlankWindowing

NextLoader ==
    \/ RepairNegativeTimestamps
    \/ TrimEdges
    \/ SuppressAfterHoles
    \/ SelectIndicesToFiltering
    \/ SuppressNeighbourhood
    \/ ExcludeManually
    \/ Interpolate

SpecLoader == InitLoader /\ [][NextLoader]_vars

\* stages 1 to 4 with one set of parameters, twice in a row
InitRerun ==
    /\ entry = Rerun
    /\ pc = "remove_negative_timestamps"
    /\ error = "none"
    /\ data \in Recordings
    /\ args \in [parameters : {q \in LoaderParameters : ~q.interpolation},
                 cur_person_group : {"control"}, cur_person_number : {4}]
    /\ output = <<>>
    /\ stages = <<>>
    /\ data_before_DWT = <<>>
    /\ filtered_indices = {}
    /\ BlankWindowing

NextRerun ==
    \/ RepairNegativeTimestamps
    \/ TrimEdges
    \/ SuppressAfterHoles
    \/ SelectIndicesToFiltering
    \/ SuppressNeighbourhood

SpecRerun == InitRerun /\ [][NextRerun]_vars

(***************************************************************************)
(* Properties of the filter stages.                                        *)
(***************************************************************************)
\* the stage called has returned a frame
StageReturned == pc = "returned"

\* the rows of df at the positions outside removed, in stored order
Without(df, removed) == Keep(df, (1..Len(df)) \ removed)

\* row p of df is a rewind: some earlier row has a greater timestamp
IsRewind(df, p) == \E q \in 1..(p - 1) : df[q].t > df[p].t

Rewinds(df) == {p \in 1..Len(df) : IsRewind(df, p)}

\* C12: remove_negative_timestamps returns its input without every rewind
\* (a row whose timestamp is strictly below the maximum of all earlier rows)
\* and without the rows just before and just after a rewind; all other rows
\* stay, in order and with their labels and values; an input without
\* rewinds comes back unchanged.
C12_RewindsAndNeighboursRemoved ==
    (StageReturned /\ entry = "remove_negative_timestamps") =>
        /\ output = Without(data, {p \in 1..Len(data) :
                                      {p - 1, p, p + 1} \cap Rewinds(data) # {}})
        /\ Rewinds(data) = {} => output = data

\* a frame with gaps in its index whose only rewind is its last row: the
\* rewind and its predecessor go, the two rows before them stay
C12_Witness ==
    /\ StageReturned
    /\ entry = "remove_negative_timestamps"
    /\ Len(data) = 4
    /\ data[1].i # 0
    /\ Rewinds(data) = {4}
    /\ output = <<data[1], data[2]>>

\* C13: remove_first_and_last_indices removes exactly the rows with a
\* timestamp <= (timestamp of the first stored row + initial_cut_window) or
\* >= (timestamp of the last stored row - end_cut_window); all other rows
\* stay, in order and with their labels and values.
C13_EdgeRowsRemoved ==
    (StageReturned /\ entry = "remove_first_and_last_indices") =>
        output = Without(data, {p \in 1..Len(data) :
                     \/ data[p].t <= data[1].t + args.initial_cut_window
                     \/ data[p].t >= data[Len(data)].t - args.end_cut_window})

\* a frame with gaps in its index: the row exactly on the first cut timestamp
\* goes with the first and the last row, the row after it stays
C13_Witness ==
    /\ StageReturned
    /\ entry = "remove_first_and_last_indices"
    /\ Len(data) = 4
    /\ data[1].i # 0
    /\ args.initial_cut_window > 0
    /\ data[2].t = data[1].t + args.initial_cut_window
    /\ output = <<data[3]>>

\* timestamps u < t of df with no timestamp of df between them
TimestampConsecutive(df, u, t) ==
    /\ u \in TimestampValues(df)
    /\ t \in TimestampValues(df)
    /\ u < t
    /\ \A w \in TimestampValues(df) : ~(u < w /\ w < t)

\* timestamps of the first entries after a gap greater than hole_time
AfterHoles(df, hole_time) ==
    {t \in TimestampValues(df) :
        \E u \in TimestampValues(df) :
            TimestampConsecutive(df, u, t) /\ t - u > hole_time}

\* C14: remove_consecutive_beats_after_holes removes exactly the entries
\* with a timestamp in [t, t + window_time] for the first entry t after a gap
\* strictly greater than hole_time between timestamp-consecutive entries of
\* the input; holes are those of the input only, and kept rows retain
\* order, values and labels.
C14_BeatsAfterHolesRemoved ==
    (StageReturned /\ entry = "remove_consecutive_beats_after_holes") =>
        output = Without(data, {p \in 1..Len(data) :
                     \E t \in AfterHoles(data, args.hole_time) :
                         data[p].t >= t /\ data[p].t <= t + args.window_time})

\* a time-sorted frame with one hole: the entry after it and the one on the
\* end of the window go, and the gap this opens in the output is left alone
C14_Witness ==
    /\ StageReturned
    /\ entry = "remove_consecutive_beats_after_holes"
    /\ Len(data) = 4
    /\ args.window_time > 0
    /\ Cardinality(AfterHoles(data, args.hole_time)) = 1
    /\ data[3].t = data[2].t + args.window_time
    /\ output = <<data[1], data[4]>>
    /\ AfterHoles(output, args.hole_time) = {data[4].t}

\* C15: remove_adjacent_beats removes exactly the rows with a timestamp in
\* [t - time, t + time] for the timestamp t of a row whose index label is in
\* filtered_indices; flagged indices that label no row are ignored; every
\* other row stays, in order and with its label and value.
C15_NeighbourhoodRemoved ==
    (StageReturned /\ entry = "remove_adjacent_beats") =>
        output = Without(data, {p \in 1..Len(data) :
                     \E q \in 1..Len(data) :
                         /\ data[q].i \in args.filtered_indices
                         /\ data[p].t >= data[q].t - args.time
                         /\ data[p].t <= data[q].t + args.time})

\* one flagged label names a row, the other none: the rows time ticks before
\* and after the flagged row go with it, the remaining row stays
C15_Witness ==
    /\ StageReturned
    /\ entry = "remove_adjacent_beats"
    /\ Len(data) = 4
    /\ args.time > 0
    /\ IndexValues(data) \cap args.filtered_indices = {2}
    /\ args.filtered_indices \ IndexValues(data) # {}
    /\ data[2].t = data[3].t - args.time
    /\ data[4].t = data[3].t + args.time
    /\ output = <<data[1]>>

\* the entries of an array as a set
Entries(a) == {a[k] : k \in 1..Len(a)}

\* every entry of the list lies in [0, length)
WithinRange(to_remove, length) ==
    \A k \in 1..Len(to_remove) : to_remove[k] >= 0 /\ to_remove[k] < length

StrictlyIncreasing(a) == \A k \in 1..(Len(a) - 1) : a[k] < a[k + 1]

\* C17: for every list of indices from [0, length),
\* remove_preceding_and_following_beat returns, strictly increasing and
\* without repetition, exactly the indices i in [0, length) for which i,
\* i - 1 or i + 1 is in the list.
C17_SortedUniqueNeighbourhood ==
    (entry = "remove_preceding_and_following_beat" /\ pc # "call"
        /\ WithinRange(args.to_remove, args.length)) =>
        /\ StageReturned
        /\ StrictlyIncreasing(output)
        /\ Entries(output) = {i \in 0..(args.length - 1) :
                                  {i - 1, i, i + 1} \cap Entries(args.to_remove) # {}}

\* positions of the rows of df a time rule of the subject matches
Matched(df, group, number) ==
    {p \in 1..Len(df) : RuleMatches(group, number, df[p].t)}

Reconstructed ==
    {p \in 1..Len(output.modified_dataframe) :
        output.modified_dataframe[p].t \in output.filtering_extreme_timestamps}

\* the k-th prediction lies outside the values of data
PredictedOutside(k) ==
    \/ \A p \in 1..Len(data) : output.predictions[k] < data[p].v
    \/ \A p \in 1..Len(data) : output.predictions[k] > data[p].v

\* the predictions that lie within the values of data
PredictedInside == {k \in 1..Len(output.predictions) : ~PredictedOutside(k)}

\* C18: in the merged series interpolate_data_with_splines returns, every
\* reconstructed row has a value within [min, max] of the values and a
\* timestamp within [min, max] of the timestamps of the post-filter series,
\* whatever the spline predicts; a prediction outside the value range is
\* dropped, not clipped: the reconstructed rows are as many as the
\* predictions inside the range and carry their values.
C18_ReconstructedWithinRange ==
    (StageReturned /\ entry = "interpolate_data_with_splines") =>
        /\ \A r \in Reconstructed :
              LET row == output.modified_dataframe[r]
              IN /\ \E p \in 1..Len(data) : data[p].v <= row.v
                 /\ \E p \in 1..Len(data) : data[p].v >= row.v
                 /\ \E p \in 1..Len(data) : data[p].t <= row.t
                 /\ \E p \in 1..Len(data) : data[p].t >= row.t
                 /\ \E k \in PredictedInside : output.predictions[k] = row.v
        /\ Cardinality(Reconstructed) = Cardinality(PredictedInside)

\* two beats were removed between the first and the last kept one; the
\* prediction for one lies inside the value range and is merged, the one for
\* the other lies outside and is missing from the result
C18_Witness ==
    /\ StageReturned
    /\ entry = "interpolate_data_with_splines"
    /\ Len(data) = 2
    /\ Cardinality(output.filtering_extreme_timestamps) = 2
    /\ PredictedOutside(1)
    /\ output.predictions[2] > data[1].v
    /\ Cardinality(Reconstructed) = 1
    /\ Len(output.modified_dataframe) = 3

(***************************************************************************)
(* Properties of the loader.                                               *)
(***************************************************************************)
\* the stages of a complete run, in the order of the specification
ExpectedStages(interpolation) ==
    <<"remove_negative_timestamps", "remove_first_and_last_indices",
      "remove_consecutive_beats_after_holes", "select_indices_to_filtering",
      "remove_adjacent_beats", "remove_manually_anomalies">>
        \o (IF interpolation THEN <<"interpolate_data_with_splines">> ELSE <<>>)

\* timestamps and values of a frame, without its index labels
Rows(df) == [p \in 1..Len(df) |-> <<df[p].t, df[p].v>>]

\* C11: load_and_preprocess_data_for_single_person applies negative-timestamp
\* repair, edge trimming, post-hole suppression, wavelet detection and
\* neighbourhood suppression, manual exclusion and, last and only when
\* 'interpolation' is true, spline interpolation, in this order, each on the
\* output of the one before; it returns only after all of them, and none is
\* skipped, repeated or reordered.
C11_StagesInOrder ==
    entry = Loader =>
        LET expected == ExpectedStages(args.parameters.interpolation)
        IN /\ Len(stages) <= Len(expected)
           /\ \A k \in 1..Len(stages) : stages[k].stage = expected[k]
           /\ \A k \in 2..Len(stages) :
                  Rows(stages[k].given) = Rows(stages[k - 1].returned)
           /\ pc = "returned" <=> Len(stages) = Len(expected)
           /\ pc \notin {"returned", "failed"} => pc = expected[Len(stages) + 1]
           /\ pc = "returned" => output = stages[Len(stages)].returned

\* a complete run with interpolation: the neighbourhood suppression removed
\* a beat and the spline stage, run last, put one back
C11_Witness ==
    /\ entry = Loader
    /\ pc = "returned"
    /\ args.parameters.interpolation
    /\ Len(stages) = 7
    /\ Len(stages[5].returned) < Len(stages[5].given)
    /\ Len(stages[7].returned) > Len(stages[7].given)
    /\ output = stages[7].returned

\* the second run of stages 1 to 4 has returned
RerunReturned == entry = Rerun /\ pc = "returned"

\* C19: running stages 1 to 4 with the same parameters on the output of a
\* previous run of those stages removes no additional row.
C19_RerunRemovesNothing == RerunReturned => Rows(data) = Rows(output)

\* C19, amended: on the output of a previous run the negative-timestamp
\* repair removes no row, but edge trimming removes the first and the last
\* remaining row again, so a second run that completes always returns
\* fewer rows than it was given.
C19_RerunTrimsAgain ==
    entry = Rerun =>
        /\ Len(stages) >= 6 =>
               /\ stages[6].stage = "remove_negative_timestamps"
               /\ Rows(stages[6].given) = Rows(output)
               /\ stages[6].returned = stages[6].given
        /\ Len(stages) >= 7 => Len(stages[7].returned) < Len(stages[7].given)
        /\ pc = "returned" => Len(data) < Len(output)

\* the first run left three beats; the second run found no rewind among
\* them, trimmed the first and the last and returned the one in between
C19_Witness ==
    /\ RerunReturned
    /\ Len(output) = 3
    /\ stages[6].returned = stages[6].given
    /\ Rows(data) = <<Rows(output)[2]>>

(***************************************************************************)
(* Frame property of the stages.                                           *)
(***************************************************************************)
\* C20: no filter stage and not calculate_HRV_in_windows changes a frame
\* passed to it: in every step of a call, also one that ends it with an
\* exception, the caller's data (and the original_data handed to the
\* interpolation) keep their rows, values and index labels.
C20_InputsUnchanged ==
    [][data' = data /\ data_before_DWT' = data_before_DWT]_vars

\* a stage that drops rows in place has returned a shorter frame while the
\* frame it was given is still complete
C20_Witness ==
    /\ StageReturned
    /\ entry \in DropsInPlace
    /\ Len(data) = 4
    /\ Len(output) = 2

(***************************************************************************)
(* Properties of the error handling and of the merged series.              *)
(***************************************************************************)
\* C21: a call of calculate_HRV_in_windows with a method other than
\* 'RMSSD', 'SDNN' or 'pNN50' never returns result arrays, whatever the
\* series and the accepted step/window pair.
C21_UnknownMethodFails ==
    (entry = "calculate_HRV_in_windows" /\ ~KnownMethod(method)
        /\ StepAccepted(step_frequency, window_size))
    => pc # "returned"

\* the rows of the merged frame whose timestamp no row of data has
Merged == {q \in 1..Len(output.modified_dataframe) :
              output.modified_dataframe[q].t \notin TimestampValues(data)}

FlaggedPositions(s) ==
    IF s.stage = "remove_adjacent_beats"
    THEN {p \in 1..Len(s.given) : s.given[p].i \in filtered_indices}
    ELSE IF s.stage = "remove_manually_anomalies"
         THEN IF <<args.cur_person_group, args.cur_person_number>> \in ListedSubjects
              THEN Matched(s.given, args.cur_person_group, args.cur_person_number)
              ELSE {}
    ELSE {}

\* the row at position q of the frame stage s was given is in its output
Survives(s, q) == s.given[q].i \in IndexValues(s.returned)

\* C23: whenever position p of the series a stage of the loader receives is
\* flagged, by the wavelet detection or by the manual table, the rows at the
\* positions p-1, p and p+1 (within range) are absent from the stage's output.
C23_PositionalNeighboursRemoved ==
    entry = Loader =>
        \A k \in 1..Len(stages) :
            \A p \in FlaggedPositions(stages[k]) :
                \A q \in {p - 1, p, p + 1} \cap (1..Len(stages[k].given)) :
                    ~Survives(stages[k], q)

\* C23, amended: the manual table's positions are expanded by position, the
\* wavelet detection's by time: remove_adjacent_beats removes exactly the
\* rows whose timestamp lies within adjacent_beats_for_removing of the
\* timestamp of a flagged row, whatever their position.
C23_NeighboursByPositionOrTime ==
    entry = Loader =>
        \A k \in 1..Len(stages) :
            LET s == stages[k]
                time == args.parameters.adjacent_beats_for_removing
            IN /\ s.stage = "remove_manually_anomalies" =>
                      s.returned = Without(s.given, {q \in 1..Len(s.given) :
                          {q - 1, q, q + 1} \cap FlaggedPositions(s) # {}})
               /\ s.stage = "remove_adjacent_beats" =>
                      s.returned = Without(s.given, {q \in 1..Len(s.given) :
                          \E p \in FlaggedPositions(s) :
                              /\ s.given[q].t >= s.given[p].t - time
                              /\ s.given[q].t <= s.given[p].t + time})

\* the wavelet detection flagged one beat and the suppression removed it
\* alone, its neighbours being further away than the time given; the manual
\* table then matched a beat and took the beats before and after it as well
C23_Witness ==
    /\ entry = Loader
    /\ pc = "returned"
    /\ \E p \in FlaggedPositions(stages[5]) :
           /\ p > 1
           /\ p < Len(stages[5].given)
           /\ ~Survives(stages[5], p)
           /\ Survives(stages[5], p - 1)
           /\ Survives(stages[5], p + 1)
    /\ \E p \in FlaggedPositions(stages[6]) :
           /\ p > 1
           /\ p < Len(stages[6].given)
           /\ p - 1 \notin FlaggedPositions(stages[6])
           /\ ~Survives(stages[6], p - 1)
           /\ ~Survives(stages[6], p + 1)

\* C24: remove_preceding_and_following_beat ends with an AssertionError and
\* returns nothing whenever an index of its list lies outside [0, length),
\* be it negative or not below length.
C24_OutsideRangeFails ==
    (entry = "remove_preceding_and_following_beat" /\ pc # "call"
        /\ ~WithinRange(args.to_remove, args.length)) =>
        /\ pc = "failed"
        /\ error = "AssertionError"
        /\ output = <<>>

(***************************************************************************)
(* The wavelet detector: select_indices_to_filtering of                    *)
(* src/utils_preprocessing.py on its own, with the transform computed.     *)
(* The selection does not change when all samples are multiplied by a      *)
(* constant, so RR intervals are taken in units of 100 ms.                 *)
(***************************************************************************)
MaxSamples == 5      \* rows of a frame handed to the detector

\* RR intervals of the explored frames, in units of 100 ms
SampleRR == {8, 9, 12}

\* decomposition high-pass filter of 'db5', in units of 1/311: the rounded
\* taps keep the sum and the first two moments of the filter at zero
dec_hi == <<-50, 188, -225, 43, 75, -10, -24, -2, 4, 1>>

\* mode='smooth': sample n (from 0) of the signal, continued on both sides
\* along the straight line through its two outermost samples
Smooth(x, n) ==
    LET N == Len(x)
    IN IF n >= 0 /\ n < N THEN x[n + 1]
       ELSE IF N = 1 THEN x[1]
       ELSE IF n < 0 THEN x[1] + (x[1] - x[2]) * (-n)
       ELSE x[N] + (x[N] - x[N - 1]) * (n - N + 1)

\* pywt.dwt: the convolution with the filter, every second value kept
coeff_detail(x) ==
    [k \in 1..DetailLength(Len(x)) |->
        SumSeq([j \in 1..WaveletLength |-> dec_hi[j] * Smooth(x, 2 * k - j)])]

\* 100 * np.log(no_of_samples), rounded
Log100(n) ==
    CASE n = 1 -> 0 [] n = 2 -> 69 [] n = 3 -> 110 [] n = 4 -> 139
      [] n = 5 -> 161 [] n = 6 -> 179 [] OTHER -> 195

\* np.abs(coeff_detail[k]) > threshold, squared on both sides, with
\* threshold = sqrt(mean(coeff_detail ** 2) * log(no_of_samples))
AboveThreshold(detail, k, no_of_samples) ==
    detail[k] * detail[k] * Len(detail) * 100
        > SumSeq([l \in 1..Len(detail) |-> detail[l] * detail[l]]) * Log100(no_of_samples)

\* 2 * np.ravel(np.argwhere(...)): positions are counted from 0
indicated_indices(x) ==
    {2 * (k - 1) : k \in {l \in 1..DetailLength(Len(x)) :
                              AboveThreshold(coeff_detail(x), l, Len(x))}}

select_indices_to_filtering(df) ==
    LET x == [p \in 1..Len(df) |-> df[p].v]
    IN [coeff_detail |-> coeff_detail(x), indicated_indices |-> indicated_indices(x)]

CallSelectIndicesToFiltering ==
    CallStage("select_indices_to_filtering", DetectionError(data),
              select_indices_to_filtering(data))

\* frames of three and more beats, one per tick; with fewer samples the
\* continued signal is a straight line, whose coefficients are rounding noise
InitDetector ==
    /\ entry = "select_indices_to_filtering"
    /\ pc = "call"
    /\ error = "none"
    /\ \E n \in 3..MaxSamples : \E x \in [1..n -> SampleRR] :
           data = [p \in 1..n |-> Beat(p - 1, p - 1, x[p])]
    /\ args = [column_name |-> "RR-interval [ms]"]
    /\ output = <<>>
    /\ stages = <<>>
    /\ data_before_DWT = <<>>
    /\ filtered_indices = {}
    /\ BlankWindowing

SpecDetector == InitDetector /\ [][CallSelectIndicesToFiltering]_vars

\* C25: every index select_indices_to_filtering returns is twice the
\* position of a detail coefficient whose absolute value is above the
\* threshold, and is a position of the input series: 0 <= index < N.
C25_IndicesAreValidPositions ==
    (StageReturned /\ entry = "select_indices_to_filtering") =>
        \A index \in output.indicated_indices :
            /\ \E k \in 1..Len(output.coeff_detail) :
                   /\ index = 2 * (k - 1)
                   /\ AboveThreshold(output.coeff_detail, k, Len(data))
            /\ 0 <= index
            /\ index < Len(data)

(***************************************************************************)
(* load_dataframe of src/utils_loading.py.  data is the content of the     *)
(* file f'{folder}{group}_{number}.csv', args.present tells whether the    *)
(* file exists; stages records every pd.read_csv that was attempted.       *)
(***************************************************************************)
MaxTries == 2        \* attempts of pd.read_csv that are followed

Datatypes == {"RR", "ACC", "HR"}

\* if datatype not in ['RR', 'ACC']
DatatypeAccepted(datatype) == datatype \in {"RR", "ACC"}

\* the object an unknown datatype makes load_dataframe return
WrongTypeOfData == [exception |-> "ValueError",
                    message |-> "Wrong type of data. Possible options: \"ACC\" or \"RR\"."]

read_csv == [stage |-> "pd.read_csv", given |-> <<>>, returned |-> <<>>]

\* load_dataframe returns: the ValueError object for an unknown datatype,
\* without reading, else the frame read from the file
CallLoadDataframe ==
    /\ entry = "load_dataframe"
    /\ pc = "call"
    /\ IF ~DatatypeAccepted(args.datatype)
          THEN output' = WrongTypeOfData /\ UNCHANGED stages
          ELSE /\ args.present
               /\ output' = data
               /\ stages' = Append(stages, read_csv)
    /\ pc' = "returned"
    /\ UNCHANGED <<entry, error, data, windowing, args, data_before_DWT, filtered_indices>>

\* @retry((FileNotFoundError, IOError)): a read that fails is tried again
RetryLoadDataframe ==
    /\ entry = "load_dataframe"
    /\ pc = "call"
    /\ DatatypeAccepted(args.datatype)
    /\ ~args.present
    /\ Len(stages) < MaxTries
    /\ stages' = Append(stages, read_csv)
    /\ UNCHANGED <<entry, pc, error, data, windowing, args, output, data_before_DWT,
                   filtered_indices>>

InitLoad ==
    /\ entry = "load_dataframe"
    /\ pc = "call"
    /\ error = "none"
    /\ data \in Recordings
    /\ \E subject \in Subjects :
           args \in [folder : {"data/"}, group : {subject[1]}, number : {subject[2]},
                     datatype : Datatypes, present : BOOLEAN]
    /\ output = <<>>
    /\ stages = <<>>
    /\ data_before_DWT = <<>>
    /\ filtered_indices = {}
    /\ BlankWindowing

NextLoad == CallLoadDataframe \/ RetryLoadDataframe

SpecLoad == InitLoad /\ [][NextLoad]_vars

\* C26: load_dataframe called with a datatype other than 'RR' or 'ACC' ends
\* with an exception that reaches the caller, reads no file and returns no
\* value.
C26_WrongDatatypeRaises ==
    (entry = "load_dataframe" /\ args.datatype \notin {"RR", "ACC"}) =>
        /\ stages = <<>>
        /\ pc # "returned"
        /\ pc # "call" => (pc = "failed" /\ error = "ValueError")

(***************************************************************************)
(* calculate_mean_HRV_based_on_windows of src/HRV_calculation.py, applied  *)
(* to one row of the results: args.elements is row[f'HRV_{method}'],       *)
(* args.timestamps is row['timestamps'].                                   *)
(***************************************************************************)
\* n * 1e-7
TenMillionths(n) == Ratio(n, 10000000)

\* HRV values of the windows of a row: 0, 5e-7, 1e-6, 3e-6, and the NaN
\* that std() of a window with nothing but outliers gives
WindowHRV == {TenMillionths(0), TenMillionths(5), TenMillionths(10), TenMillionths(30), NaN}

\* elements < 1e-6 (False for NaN), for values without a root
IsWrongElement(x) == ~x.nan /\ x.num * 1000000 < x.den

\* np.where(elements < 1e-6), or nothing for 'pNN50'
indices_of_wrong_elements(elements, m) ==
    IF m = "pNN50" THEN {}
    ELSE {k \in 1..Len(elements) : IsWrongElement(elements[k])}

\* np.mean of values with one denominator: NaN for no value at all and for
\* any NaN among them
Mean(elements) ==
    IF elements = <<>> \/ \E k \in 1..Len(elements) : elements[k].nan THEN NaN
    ELSE Ratio(SumSeq([k \in 1..Len(elements) |-> elements[k].num]),
               elements[1].den * Len(elements))

calculate_mean_HRV_based_on_windows(elements, row_timestamps, m) ==
    LET wrong == indices_of_wrong_elements(elements, m)
    IN [HRV |-> Mean(Delete(elements, wrong)),
        timestamps |-> Delete(row_timestamps, wrong)]

CallCalculateMeanHRV ==
    CallStage("calculate_mean_HRV_based_on_windows", "none",
              calculate_mean_HRV_based_on_windows(args.elements, args.timestamps,
                                                  args.method))

\* rows with up to MaxResults windows, the k-th with timestamp 2 * k
InitMean ==
    /\ entry = "calculate_mean_HRV_based_on_windows"
    /\ pc = "call"
    /\ error = "none"
    /\ data = <<>>
    /\ \E n \in 0..MaxResults :
           args \in [method : {"RMSSD", "SDNN", "pNN50"}, elements : [1..n -> WindowHRV],
                     timestamps : {[k \in 1..n |-> 2 * k]}]
    /\ output = <<>>
    /\ stages = <<>>
    /\ data_before_DWT = <<>>
    /\ filtered_indices = {}
    /\ BlankWindowing

SpecMean == InitMean /\ [][CallCalculateMeanHRV]_vars

\* the windows of the row whose value is at least 1e-6
AtLeast1e6 ==
    {k \in 1..Len(args.elements) :
        ~args.elements[k].nan /\ args.elements[k].num * 1000000 >= args.elements[k].den}

\* C27: for a method other than 'pNN50' the row's list of values is replaced
\* by the mean of exactly the values >= 1e-6 and the timestamps left are
\* those of the averaged windows, in their order; for 'pNN50' no value and
\* no timestamp is discarded.
C27_MeanOfValuesAtLeast1e6 ==
    (StageReturned /\ entry = "calculate_mean_HRV_based_on_windows") =>
        LET averaged == IF args.method = "pNN50" THEN 1..Len(args.elements)
                        ELSE AtLeast1e6
        IN /\ output.HRV = Mean(Keep(args.elements, averaged))
           /\ output.timestamps = Keep(args.timestamps, averaged)

(***************************************************************************)
(* remove_negative_timestamps applied to its own output.                   *)
(***************************************************************************)
\* data = remove_negative_timestamps(remove_negative_timestamps(data)): the
\* second call, recorded in stages
ReapplyRemoveNegativeTimestamps ==
    /\ entry = "remove_negative_timestamps"
    /\ pc = "returned"
    /\ stages = <<>>
    /\ IF NegativeTimestampsError(output) # "none"
          THEN Fail(NegativeTimestampsError(output)) /\ UNCHANGED stages
          ELSE /\ stages' = <<[stage |-> "remove_negative_timestamps", given |-> output,
                               returned |-> remove_negative_timestamps(output)]>>
               /\ UNCHANGED <<pc, error>>
    /\ UNCHANGED <<entry, data, windowing, args, output, data_before_DWT, filtered_indices>>

NextNegativeTwice == CallRemoveNegativeTimestamps \/ ReapplyRemoveNegativeTimestamps

SpecNegativeTwice == InitNegative /\ [][NextNegativeTwice]_vars

\* C28: the rows remove_negative_timestamps returns have non-decreasing
\* timestamps in stored order, and a second application to this output
\* removes nothing.
C28_OutputNonDecreasing ==
    (StageReturned /\ entry = "remove_negative_timestamps") =>
        /\ \A p \in 1..(Len(output) - 1) : output[p].t <= output[p + 1].t
        /\ stages # <<>> => stages[1].returned = output

\* a frame with a rewind lost rows in the first application and none in the
\* second
C28_Witness ==
    /\ StageReturned
    /\ entry = "remove_negative_timestamps"
    /\ Rewinds(data) # {}
    /\ Len(data) = 4
    /\ Len(output) = 2
    /\ stages # <<>>
    /\ stages[1].given = output
    /\ stages[1].returned = output

(***************************************************************************)
(* Coverage of the series by the windows.                                  *)
(***************************************************************************)
\* row p of data is an entry of the window w
InWindow(p, w) == \E j \in 1..Len(w) : w[j] = data[p]

\* C29: for a time-sorted series and step <= window every entry of the
\* series belongs to a window of prepare_windows_any_frequency_any_step and
\* still belongs to a window after filter_windows_with_chunked_dataframe: a
\* window the deduplicator marks has the same entries as the one after it.
C29_EveryEntryWindowed ==
    SlicerReturned =>
        /\ \A p \in 1..Len(data) :
               \E i \in 1..Len(divided_series) : InWindow(p, divided_series[i])
        /\ \A i \in 1..(Len(divided_series) - 1) :
               MatchesNext(divided_series, i) => divided_series[i] = divided_series[i + 1]
        /\ (entry = "calculate_HRV_in_windows" /\ pc # "filter") =>
               /\ error # "AttributeError"
               /\ \A p \in 1..Len(data) :
                      \E i \in 1..Len(filtered_series) :
                          /\ filtered_series[i].series
                          /\ InWindow(p, filtered_series[i].rows)

(***************************************************************************)
(* What the interpolation of the loader can bring back.                    *)
(***************************************************************************)
\* number of rows of df with timestamp t
CountAt(df, t) == Cardinality({p \in 1..Len(df) : df[p].t = t})

\* C30: with interpolation enabled the pre-filter series handed to the
\* interpolator is the series as post-hole suppression (stage 3) left it: no
\* beat removed by negative-timestamp repair, edge trimming or post-hole
\* suppression comes back, and every reconstructed beat has the timestamp of
\* a beat removed by the neighbourhood suppression or the manual exclusion.
C30_OnlyLateRemovalsReconstructed ==
    (entry = Loader /\ args.parameters.interpolation /\ Len(stages) >= 5) =>
        /\ Rows(data_before_DWT) = Rows(stages[3].returned)
        /\ pc = "returned" =>
               /\ \A t \in TimestampValues(output) :
                      CountAt(output, t) <= CountAt(stages[3].returned, t)
               /\ \A p \in 1..Len(output) :
                      output[p].t \notin TimestampValues(stages[6].returned) =>
                          output[p].t \in TimestampValues(stages[4].returned)
                                             \ TimestampValues(stages[6].returned)

\* edge trimming removed the first beat, the neighbourhood suppression
\* removed another, and the interpolation brought back that one only
C30_Witness ==
    /\ entry = Loader
    /\ pc = "returned"
    /\ args.parameters.interpolation
    /\ Len(stages[3].returned) < Len(stages[1].given)
    /\ stages[1].given[1].t \notin TimestampValues(output)
    /\ Len(stages[5].returned) < Len(stages[5].given)
    /\ Len(output) = Len(stages[7].given) + 1
    /\ Len(output) = Len(stages[3].returned)

====
